---- MODULE Spec2Model ----
(***************************************************************************)
(* Model of backtest/Order.py: the Order lifecycle (Order), the pending    *)
(* queue (OrderQueue) and the multi-index order book (OrderBook).          *)
(*                                                                         *)
(* Six specifications share the variables:                                 *)
(*   Spec          - one Order object and the calls made on it;            *)
(*   FeeSpec       - one Order, its status calls and pay_fee with amounts  *)
(*                   of either sign;                                       *)
(*   ConstructSpec - Order.__init__, called directly and through the queue;*)
(*   QueueSpec     - one OrderQueue and the calls made on it;              *)
(*   BookSpec      - one OrderBook, the Order objects created so far, and  *)
(*                   the calls made on the book;                           *)
(*   BookStepSpec  - the same book with insert_order and remove_order run  *)
(*                   one statement at a time.                              *)
(* Amounts, prices and fees are Python floats in the source; the model     *)
(* uses integers (a fixed-point unit), so rounding error is not modelled.  *)
(* A failed call is a call that raises: the action records the exception   *)
(* in outcome and keeps whatever the code had already written. Assertions  *)
(* are enabled (Python run without -O).                                    *)
(* A Transaction passed to execute_transaction is kept as its amount, the  *)
(* one field the Order reads besides side; an order in the queue or the    *)
(* book is kept as its id, and its immutable timestamp and symbol are      *)
(* looked up in orders.                                                    *)
(***************************************************************************)
EXTENDS Integers, Sequences, FiniteSets

\* ---------------------------------------------------------------- bounds
MaxAmount == 2
MaxTxAmount == 2
MaxTx == 3
MaxFee == 1
MaxQueueIds == 4
MaxOrders == 3
MaxTimestamp == 2
MaxLimit == 3

\* ------------------------------------------------------------ value types
OrderSide == {"buy", "sell"}

OrderType == {"limit", "market", "stop_limit"}

OrderStatus == {"submitted", "accepted", "open", "filled", "cancelled"}

\* Inputs the environment may pass.
AmountInputs == 0..MaxAmount
PriceInputs == {-1, 1}
TxAmounts == 0..MaxTxAmount
Assets == {"USD", "BTC"}
FeeAmounts == {0, 1}
FeePayments == {-1, 0, 1}
QueueIds == 1..MaxQueueIds
Ids == 1..MaxOrders
Timestamps == 1..MaxTimestamp
Symbols == {"BTC/USD", "ETH/USD"}
Limits == (-1)..MaxLimit
NoId == 0
NoList == [id_only |-> TRUE, list |-> <<>>]
NoCall == [op |-> "none", id |-> NoId, done |-> 0]

VARIABLES
    \* one Order object
    constructed,    \* TRUE once Order.__init__ has returned
    type, amount, price, stop_price,
    status, filled, transactions, fee,
    filled_events,  \* history: number of execute_transaction calls that returned True
    paid,           \* history: per asset, the sum of the amounts passed to pay_fee,
                    \* and the assets that were passed a nonzero amount
    \* the last call made and how it ended
    lastOp, outcome, ret,
    \* one OrderQueue
    queue,          \* OrderQueue.book: the ids of the orders it holds, in insertion order
    issued,         \* ids the id generator has produced for the queue's orders
    qret,           \* the id of the order the last queue call returned, or NoId
    added, popped,  \* history: ids add_new_order returned / pop_order returned, in call order
    qlist,          \* the list the last queue call returned and the id_only it
                    \* was asked with, or NoList
    \* one OrderBook and the Order objects that exist
    orders,         \* id -> [timestamp, symbol] of every Order object created
    book,           \* OrderBook.book: the ids it maps (each to its Order object)
    time_dict,      \* OrderBook.time_dict, a SortedDict: [keys, list]
    symbol_dict,    \* OrderBook.symbol_dict: symbol -> SortedDict
    call            \* the insert_order or remove_order call that is between two
                    \* of its statements: its name, its order and the statements
                    \* done, or NoCall

orderVars == <<constructed, type, amount, price, stop_price, status, filled,
               transactions, fee, filled_events, paid>>
callVars == <<lastOp, outcome, ret>>
queueVars == <<queue, issued, qret, added, popped, qlist>>
bookVars == <<orders, book, time_dict, symbol_dict, call>>
vars == <<orderVars, callVars, queueVars, bookVars>>

\* ------------------------------------------------------------------ Order
RECURSIVE SumSeq(_)
SumSeq(s) == IF s = <<>> THEN 0 ELSE s[1] + SumSeq(Tail(s))

\* mutant: the sign check made on the price as given, without the zeroing
InitPriceAsGiven(order_type, p) == p

\* Order.__init__: the type-based zeroing, applied before the sign check.
InitPrice(order_type, p) == IF order_type = "market" THEN 0 ELSE p

InitStopPrice(order_type, sp) == IF order_type # "stop_limit" THEN 0 ELSE sp

OrderArgsValid(order_type, amt, p, sp) ==
    /\ amt > 0
    /\ InitPrice(order_type, p) >= 0
    /\ InitStopPrice(order_type, sp) >= 0

NoFee == [a \in {} |-> 0]

NewOrder(order_type, amt, p, sp) ==
    /\ UNCHANGED <<queueVars, bookVars>>
    /\ ~constructed
    /\ lastOp' = "Order"
    /\ ret' = "None"
    /\ IF OrderArgsValid(order_type, amt, p, sp)
         THEN /\ constructed' = TRUE
              /\ type' = order_type
              /\ amount' = amt
              /\ price' = InitPrice(order_type, p)
              /\ stop_price' = InitStopPrice(order_type, sp)
              /\ status' = "submitted"
              /\ filled' = 0
              /\ transactions' = <<>>
              /\ fee' = NoFee
              /\ outcome' = "ok"
         ELSE /\ outcome' = "AssertionError"
              /\ UNCHANGED <<constructed, type, amount, price, stop_price, status,
                             filled, transactions, fee>>
    /\ UNCHANGED <<filled_events, paid>>

\* Order.remaining
remaining == amount - filled

\* mutant: open() without its assertion
OpenAllowedAlways(order_type) == TRUE

\* mutant: open() asserting the type is Limit
OpenAllowedLimitOnly(order_type) == order_type = "limit"

\* Order.open: assert self.type is not OrderType.Market
OpenAllowed(order_type) == order_type # "market"

open ==
    /\ UNCHANGED <<queueVars, bookVars>>
    /\ constructed
    /\ lastOp' = "open"
    /\ ret' = "None"
    /\ IF OpenAllowed(type)
         THEN status' = "open" /\ outcome' = "ok"
         ELSE status' = status /\ outcome' = "AssertionError"
    /\ UNCHANGED <<constructed, type, amount, price, stop_price, filled,
                   transactions, fee, filled_events, paid>>

\* mutant: accept() without its assertion
AcceptAllowedAlways(order_type) == TRUE

\* mutant: accept() asserting the type is not Market
AcceptAllowedNotMarket(order_type) == order_type # "market"

\* Order.accept: assert self.type is OrderType.StopLimit
AcceptAllowed(order_type) == order_type = "stop_limit"

accept ==
    /\ UNCHANGED <<queueVars, bookVars>>
    /\ constructed
    /\ lastOp' = "accept"
    /\ ret' = "None"
    /\ IF AcceptAllowed(type)
         THEN status' = "accepted" /\ outcome' = "ok"
         ELSE status' = status /\ outcome' = "AssertionError"
    /\ UNCHANGED <<constructed, type, amount, price, stop_price, filled,
                   transactions, fee, filled_events, paid>>

\* mutant: cancel() that refuses to touch a filled order
CancelStatusKeepsFilled(s) == IF s = "filled" THEN s ELSE "cancelled"

\* Order.cancel: the status it leaves, given the status it finds.
CancelStatus(s) == "cancelled"

cancel ==
    /\ UNCHANGED <<queueVars, bookVars>>
    /\ constructed
    /\ lastOp' = "cancel"
    /\ ret' = "None"
    /\ outcome' = "ok"
    /\ status' = CancelStatus(status)
    /\ UNCHANGED <<constructed, type, amount, price, stop_price, filled,
                   transactions, fee, filled_events, paid>>

\* mutant: the sell branch subtracts the amount
FilledAfterSellSubtracts(f, tx_side, tx_amount) ==
    IF tx_side = "buy" THEN f + tx_amount ELSE f - tx_amount

\* Order.execute_transaction, lines 178-183: both side branches add the amount.
FilledAfter(f, tx_side, tx_amount) ==
    IF tx_side = "buy" THEN f + tx_amount ELSE f + tx_amount

\* lines 178-183: both side branches append the transaction (kept as its amount).
TransactionsAfter(txs, tx_side, tx_amount) ==
    IF tx_side = "buy" THEN Append(txs, tx_amount) ELSE Append(txs, tx_amount)

\* line 185: assert self.amount - self.filled >= 0, evaluated after the update.
NotOverfilled(amt, f) == amt - f >= 0

\* mutant: line 187 repeats the condition of line 185
IsFilledWhenNotOverfilled(amt, f) == amt - f >= 0

\* line 187
IsFilled(amt, f) == amt - f = 0

\* The update of lines 178-183 is made before line 185 raises, so a call
\* whose assertion fails keeps the new filled and the appended transaction.
execute_transaction(tx_side, tx_amount) ==
    /\ UNCHANGED <<queueVars, bookVars>>
    /\ constructed
    /\ Len(transactions) < MaxTx
    /\ lastOp' = "execute_transaction"
    /\ LET f == FilledAfter(filled, tx_side, tx_amount)
           txs == TransactionsAfter(transactions, tx_side, tx_amount)
       IN  IF ~NotOverfilled(amount, f)
             THEN /\ outcome' = "AssertionError"
                  /\ ret' = "None"
                  /\ filled' = f
                  /\ transactions' = txs
                  /\ UNCHANGED <<status, filled_events>>
             ELSE /\ outcome' = "ok"
                  /\ filled' = f
                  /\ transactions' = txs
                  /\ IF IsFilled(amount, f)
                       THEN /\ status' = "filled"
                            /\ ret' = "True"
                            /\ filled_events' = filled_events + 1
                       ELSE /\ status' = status
                            /\ ret' = "False"
                            /\ UNCHANGED filled_events
    /\ UNCHANGED <<constructed, type, amount, price, stop_price, fee, paid>>

\* mutant: pay_fee without the early return on a zero amount
FeeAfterNoZeroCheck(f, asset, amt) ==
    IF asset \notin DOMAIN f
      THEN [a \in DOMAIN f \cup {asset} |-> IF a = asset THEN amt ELSE f[a]]
      ELSE [f EXCEPT ![asset] = @ + amt]

\* Order.pay_fee
FeeAfter(f, asset, amt) ==
    IF amt = 0 THEN f
    ELSE IF asset \notin DOMAIN f
           THEN [a \in DOMAIN f \cup {asset} |-> IF a = asset THEN amt ELSE f[a]]
           ELSE [f EXCEPT ![asset] = @ + amt]

pay_fee(asset, amt) ==
    /\ UNCHANGED <<queueVars, bookVars>>
    /\ constructed
    /\ \A a \in DOMAIN FeeAfter(fee, asset, amt) :
          /\ FeeAfter(fee, asset, amt)[a] <= MaxFee
          /\ FeeAfter(fee, asset, amt)[a] >= -MaxFee
    /\ lastOp' = "pay_fee"
    /\ ret' = "None"
    /\ outcome' = "ok"
    /\ fee' = FeeAfter(fee, asset, amt)
    /\ paid' = [sum |-> [paid.sum EXCEPT ![asset] = @ + amt],
                nonzero |-> IF amt # 0 THEN paid.nonzero \cup {asset} ELSE paid.nonzero]
    /\ UNCHANGED <<constructed, type, amount, price, stop_price, status, filled,
                   transactions, filled_events>>


\* ------------------------------------------------------------- OrderQueue
\* mutant: popitem() with its default last=True
PopItemLast(q) == [item |-> q[Len(q)], rest |-> SubSeq(q, 1, Len(q) - 1)]

\* OrderedDict.popitem(last=False) on a non-empty dict
PopItem(q) == [item |-> q[1], rest |-> Tail(q)]

\* self.book[new_order.id] = new_order, for an id that is not yet a key
SetNewKey(q, id) == Append(q, id)

\* OrderQueue.add_new_order; id is the value uuid4 gives the new order.
add_new_order(order_type, amt, p, sp, id) ==
    /\ id \notin issued
    /\ lastOp' = "add_new_order"
    /\ IF OrderArgsValid(order_type, amt, p, sp)
         THEN /\ outcome' = "ok"
              /\ issued' = issued \cup {id}
              /\ queue' = SetNewKey(queue, id)
              /\ qret' = id
              /\ added' = Append(added, id)
         ELSE /\ outcome' = "AssertionError"
              /\ qret' = NoId
              /\ UNCHANGED <<queue, issued, added>>
    /\ qlist' = NoList
    /\ UNCHANGED <<popped, ret, orderVars, bookVars>>

\* mutant: pop_order returning None on an empty dict, as dict.pop with a default
pop_order_default ==
    /\ lastOp' = "pop_order"
    /\ IF queue = <<>>
         THEN /\ outcome' = "ok"
              /\ qret' = NoId
              /\ UNCHANGED <<queue, popped>>
         ELSE /\ outcome' = "ok"
              /\ queue' = PopItem(queue).rest
              /\ qret' = PopItem(queue).item
              /\ popped' = Append(popped, PopItem(queue).item)
    /\ qlist' = NoList
    /\ UNCHANGED <<issued, added, ret, orderVars, bookVars>>

\* OrderQueue.pop_order; popitem raises KeyError on an empty dict.
pop_order ==
    /\ lastOp' = "pop_order"
    /\ IF queue = <<>>
         THEN /\ outcome' = "KeyError"
              /\ qret' = NoId
              /\ UNCHANGED <<queue, popped>>
         ELSE /\ outcome' = "ok"
              /\ queue' = PopItem(queue).rest
              /\ qret' = PopItem(queue).item
              /\ popped' = Append(popped, PopItem(queue).item)
    /\ qlist' = NoList
    /\ UNCHANGED <<issued, added, ret, orderVars, bookVars>>

\* mutant: the last limit entries, as OrderBook.get_orders takes them
OrderQueue_get_orders_tail(limit) ==
    IF limit > 0 /\ limit < Len(queue)
      THEN SubSeq(queue, Len(queue) - limit + 1, Len(queue))
      ELSE queue

\* OrderQueue.get_orders with id_only=True: the loop stops once count = limit > 0.
OrderQueue_get_orders(limit) ==
    IF limit > 0 /\ limit < Len(queue) THEN SubSeq(queue, 1, limit) ELSE queue

\* A call of OrderQueue.get_orders.  With id_only=False each entry of the
\* list is the order's info, kept here as the id it carries.
queue_get_orders(limit, id_only) ==
    /\ lastOp' = "get_orders"
    /\ outcome' = "ok"
    /\ qlist' = [id_only |-> id_only, list |-> OrderQueue_get_orders(limit)]
    /\ qret' = NoId
    /\ UNCHANGED <<queue, issued, added, popped, ret, orderVars, bookVars>>


\* -------------------------------------------------------------- OrderBook
Range(s) == {s[i] : i \in 1..Len(s)}

\* Position of x in sequence s (0 when absent).
Pos(s, x) == IF x \in Range(s) THEN CHOOSE i \in 1..Len(s) : s[i] = x ELSE 0

\* Transaction.symbol of Order object id
SymbolOf(id) == orders[id].symbol

\* The key function of both indices: lambda order_id: self.book[order_id].timestamp.
\* It raises KeyError when order_id is not a key of book.
KeyDefined(id, bk) == id \in bk

\* Transaction.timestamp of Order object id
TimestampOf(id) == orders[id].timestamp

\* mutant: SortedDict() without the key function, which sorts by the id itself
KeyOfIsId(id) == id

KeyOf(id) == TimestampOf(id)

\* bisect_right on the keys of a sorted list: the insertion point after every
\* element whose key is <= k.
BisectRight(l, k) == Cardinality({i \in 1..Len(l) : KeyOf(l[i]) <= k})

\* SortedKeyList.add
SortedAdd(l, id) ==
    LET i == BisectRight(l, KeyOf(id))
    IN  SubSeq(l, 1, i) \o <<id>> \o SubSeq(l, i + 1, Len(l))

\* SortedKeyList.remove
SortedRemove(l, id) ==
    LET i == Pos(l, id)
    IN  IF i = 0 THEN l ELSE SubSeq(l, 1, i - 1) \o SubSeq(l, i + 1, Len(l))

EmptySortedDict == [keys |-> {}, list |-> <<>>]

\* SortedDict.__setitem__(id, order), with book = bk when it runs: a new key is
\* added to the sorted list first (the key function may raise), then to the dict.
SortedSetItem(d, id, bk) ==
    IF id \in d.keys THEN [ok |-> TRUE, val |-> d]
    ELSE IF ~KeyDefined(id, bk) THEN [ok |-> FALSE, val |-> d]
    ELSE [ok |-> TRUE, val |-> [keys |-> d.keys \cup {id}, list |-> SortedAdd(d.list, id)]]

\* SortedDict.__delitem__(id), with book = bk when it runs: the dict entry is
\* deleted first (KeyError when absent), then the key is removed from the
\* sorted list (the key function may raise).
SortedDelItem(d, id, bk) ==
    IF id \notin d.keys THEN [ok |-> FALSE, val |-> d]
    ELSE IF ~KeyDefined(id, bk) THEN [ok |-> FALSE, val |-> [d EXCEPT !.keys = @ \ {id}]]
    ELSE [ok |-> TRUE, val |-> [keys |-> d.keys \ {id}, list |-> SortedRemove(d.list, id)]]

\* Order.__init__ as the book sees it: a new Order object with a fresh id. The
\* id is an opaque uuid4 value; the model numbers the objects in creation
\* order, which the book never sees: the order of the insert_order calls is
\* free, so id order and insertion order vary independently.
CreateOrder(id, ts, sym) ==
    /\ id \notin DOMAIN orders
    /\ id = Cardinality(DOMAIN orders) + 1
    /\ lastOp' = "Order"
    /\ outcome' = "ok"
    /\ orders' = [i \in DOMAIN orders \cup {id} |->
                    IF i = id THEN [timestamp |-> ts, symbol |-> sym] ELSE orders[i]]
    /\ UNCHANGED <<book, time_dict, symbol_dict, call, ret, orderVars, queueVars>>

\* mutant: the branch that creates a symbol's index does not add the order to it
SymbolDictInsertCreateOnly(sd, sym, id, bk) ==
    IF sym \in DOMAIN sd
      THEN [ok |-> SortedSetItem(sd[sym], id, bk).ok,
            val |-> [sd EXCEPT ![sym] = SortedSetItem(sd[sym], id, bk).val]]
      ELSE [ok |-> TRUE,
            val |-> [x \in DOMAIN sd \cup {sym} |->
                       IF x = sym THEN EmptySortedDict ELSE sd[x]]]

\* symbol_dict after lines 259-263 of insert_order
SymbolDictInsert(sd, sym, id, bk) ==
    LET old == IF sym \in DOMAIN sd THEN sd[sym] ELSE EmptySortedDict
        new == SortedSetItem(old, id, bk)
    IN  [ok |-> new.ok,
         val |-> [x \in DOMAIN sd \cup {sym} |-> IF x = sym THEN new.val ELSE sd[x]]]

\* OrderBook.insert_order
insert_order(id) ==
    /\ id \in DOMAIN orders
    /\ lastOp' = "insert_order"
    /\ LET book1 == book \cup {id}
           t == SortedSetItem(time_dict, id, book1)
           sd == SymbolDictInsert(symbol_dict, SymbolOf(id), id, book1)
       IN  /\ book' = book1
           /\ time_dict' = t.val
           /\ symbol_dict' = IF t.ok THEN sd.val ELSE symbol_dict
           /\ outcome' = IF t.ok /\ sd.ok THEN "ok" ELSE "KeyError"
    /\ UNCHANGED <<orders, call, ret, orderVars, queueVars>>

\* mutant: remove_order dropping a per-symbol index that it has emptied
remove_order_pruning(id) ==
    /\ id \in DOMAIN orders
    /\ lastOp' = "remove_order"
    /\ LET t == SortedDelItem(time_dict, id, book)
           sym == SymbolOf(id)
           s == IF sym \in DOMAIN symbol_dict
                  THEN SortedDelItem(symbol_dict[sym], id, book)
                  ELSE [ok |-> FALSE, val |-> EmptySortedDict]
       IN  /\ time_dict' = t.val
           /\ symbol_dict' = IF t.ok /\ sym \in DOMAIN symbol_dict
                               THEN IF s.ok /\ s.val.keys = {}
                                      THEN [x \in DOMAIN symbol_dict \ {sym} |-> symbol_dict[x]]
                                      ELSE [symbol_dict EXCEPT ![sym] = s.val]
                               ELSE symbol_dict
           /\ book' = IF t.ok /\ s.ok THEN book \ {id} ELSE book
           /\ outcome' = IF t.ok /\ s.ok /\ id \in book THEN "ok" ELSE "KeyError"
    /\ UNCHANGED <<orders, call, ret, orderVars, queueVars>>

\* OrderBook.remove_order: time_dict, then symbol_dict, then book; the first
\* statement that raises ends the call and keeps what the earlier ones did.
remove_order(id) ==
    /\ id \in DOMAIN orders
    /\ lastOp' = "remove_order"
    /\ LET t == SortedDelItem(time_dict, id, book)
           sym == SymbolOf(id)
           s == IF sym \in DOMAIN symbol_dict
                  THEN SortedDelItem(symbol_dict[sym], id, book)
                  ELSE [ok |-> FALSE, val |-> EmptySortedDict]
       IN  /\ time_dict' = t.val
           /\ symbol_dict' = IF t.ok /\ sym \in DOMAIN symbol_dict
                               THEN [symbol_dict EXCEPT ![sym] = s.val]
                               ELSE symbol_dict
           /\ book' = IF t.ok /\ s.ok THEN book \ {id} ELSE book
           /\ outcome' = IF t.ok /\ s.ok /\ id \in book THEN "ok" ELSE "KeyError"
    /\ UNCHANGED <<orders, call, ret, orderVars, queueVars>>

\* The statements of insert_order (lines 256-263) in program order, each
\* named by the structure it writes.
InsertStatements == <<"book", "time_dict", "symbol_dict">>

\* mutant: remove_order deleting from the per-symbol index first
RemoveStatementsSymbolFirst == <<"symbol_dict", "time_dict", "book">>

\* mutant: remove_order deleting from book first
RemoveStatementsBookFirst == <<"book", "time_dict", "symbol_dict">>

\* The statements of remove_order (lines 266-268) in program order.
RemoveStatements == <<"time_dict", "symbol_dict", "book">>

\* One statement of insert_order for order id: the three structures after it
\* and whether it returned (ok) or raised.
InsertInto(target, id) ==
    CASE target = "book" ->
           [ok |-> TRUE, book |-> book \cup {id},
            time_dict |-> time_dict, symbol_dict |-> symbol_dict]
      [] target = "time_dict" ->
           [ok |-> SortedSetItem(time_dict, id, book).ok, book |-> book,
            time_dict |-> SortedSetItem(time_dict, id, book).val,
            symbol_dict |-> symbol_dict]
      [] target = "symbol_dict" ->
           [ok |-> SymbolDictInsert(symbol_dict, SymbolOf(id), id, book).ok, book |-> book,
            time_dict |-> time_dict,
            symbol_dict |-> SymbolDictInsert(symbol_dict, SymbolOf(id), id, book).val]

\* One statement of remove_order for order id.
DeleteFrom(target, id) ==
    CASE target = "time_dict" ->
           [ok |-> SortedDelItem(time_dict, id, book).ok, book |-> book,
            time_dict |-> SortedDelItem(time_dict, id, book).val,
            symbol_dict |-> symbol_dict]
      [] target = "symbol_dict" ->
           IF SymbolOf(id) \in DOMAIN symbol_dict
             THEN [ok |-> SortedDelItem(symbol_dict[SymbolOf(id)], id, book).ok,
                   book |-> book, time_dict |-> time_dict,
                   symbol_dict |->
                     [symbol_dict EXCEPT
                        ![SymbolOf(id)] = SortedDelItem(symbol_dict[SymbolOf(id)], id, book).val]]
             ELSE [ok |-> FALSE, book |-> book,
                   time_dict |-> time_dict, symbol_dict |-> symbol_dict]
      [] target = "book" ->
           [ok |-> id \in book, book |-> book \ {id},
            time_dict |-> time_dict, symbol_dict |-> symbol_dict]

\* No insert_order or remove_order call is between two of its statements.
Idle == call = NoCall

\* The next statement of a call op on order id: the first statement of a new
\* call when the book is idle, else the next one of the running call; after
\* is what that statement leaves.  A statement that raises ends the call.
StatementOf(op, id, statements, after) ==
    /\ id \in DOMAIN orders
    /\ \/ Idle
       \/ ~Idle /\ call.op = op /\ call.id = id
    /\ lastOp' = op
    /\ LET r == after
       IN  /\ book' = r.book
           /\ time_dict' = r.time_dict
           /\ symbol_dict' = r.symbol_dict
           /\ outcome' = IF ~r.ok THEN "KeyError"
                         ELSE IF call.done + 1 = Len(statements) THEN "ok"
                         ELSE "running"
           /\ call' = IF r.ok /\ call.done + 1 < Len(statements)
                        THEN [op |-> op, id |-> id, done |-> call.done + 1]
                        ELSE NoCall
    /\ UNCHANGED <<orders, ret, orderVars, queueVars>>

\* OrderBook.insert_order, one statement at a time
insert_order_step(id) ==
    StatementOf("insert_order", id, InsertStatements,
                InsertInto(InsertStatements[call.done + 1], id))

\* OrderBook.remove_order, one statement at a time
remove_order_step(id) ==
    StatementOf("remove_order", id, RemoveStatements,
                DeleteFrom(RemoveStatements[call.done + 1], id))

\* Python's s[-n:] for n >= 0; s[-0:] is s[0:], the whole list.
LastSlice(s, n) ==
    IF n = 0 THEN s
    ELSE SubSeq(s, (IF Len(s) - n > 0 THEN Len(s) - n ELSE 0) + 1, Len(s))

Min(a, b) == IF a < b THEN a ELSE b

\* mutant: the slice iloc[:limit], the oldest entries
OrderListHead(symbol, limit) ==
    LET l == IF symbol = "" THEN time_dict.list
             ELSE IF symbol \notin DOMAIN symbol_dict THEN <<>>
             ELSE symbol_dict[symbol].list
    IN  IF limit <= 0 THEN l ELSE SubSeq(l, 1, Min(limit, Len(l)))

\* OrderBook.get_orders, lines 271-284: the ids it selects.
OrderList(symbol, limit) ==
    IF symbol = ""
      THEN IF limit <= 0
             THEN time_dict.list
             ELSE LastSlice(time_dict.list, Min(limit, Cardinality(book)))
      ELSE IF symbol \notin DOMAIN symbol_dict
             THEN <<>>
             ELSE IF limit <= 0
                    THEN symbol_dict[symbol].list
                    ELSE LastSlice(symbol_dict[symbol].list,
                                   Min(limit, Cardinality(symbol_dict[symbol].keys)))

\* Order.info, reduced to the fields the model keeps
OrderInfo(id) == [id |-> id, timestamp |-> orders[id].timestamp, symbol |-> orders[id].symbol]

\* OrderBook.get_orders: the ids, or with id_only=False the snapshot of
\* book[order_id] for each id (KeyError when an id is not a key of book).
get_orders(symbol, limit, id_only) ==
    LET l == OrderList(symbol, limit)
    IN  IF id_only THEN [ok |-> TRUE, val |-> l]
        ELSE IF Range(l) \subseteq book
               THEN [ok |-> TRUE, val |-> [i \in 1..Len(l) |-> OrderInfo(l[i])]]
               ELSE [ok |-> FALSE, val |-> <<>>]

\* ---------------------------------------------------------- specification
Init ==
    /\ constructed = FALSE
    /\ type = "limit"
    /\ amount = 0
    /\ price = 0
    /\ stop_price = 0
    /\ status = "submitted"
    /\ filled = 0
    /\ transactions = <<>>
    /\ fee = NoFee
    /\ filled_events = 0
    /\ paid = [sum |-> [a \in Assets |-> 0], nonzero |-> {}]
    /\ lastOp = "none"
    /\ outcome = "ok"
    /\ ret = "None"
    /\ queue = <<>>
    /\ issued = {}
    /\ qret = NoId
    /\ added = <<>>
    /\ popped = <<>>
    /\ qlist = NoList
    /\ orders = [i \in {} |-> 0]
    /\ book = {}
    /\ time_dict = [keys |-> {}, list |-> <<>>]
    /\ symbol_dict = [sym \in {} |-> 0]
    /\ call = NoCall

Next ==
    \/ \E t \in OrderType, a \in AmountInputs, p \in PriceInputs, sp \in PriceInputs :
          NewOrder(t, a, p, sp)
    \/ open
    \/ accept
    \/ cancel
    \/ \E s \in OrderSide, a \in TxAmounts : execute_transaction(s, a)
    \/ \E as \in Assets, a \in FeeAmounts : pay_fee(as, a)

Spec == Init /\ [][Next]_vars

QueueNext ==
    \/ \E t \in OrderType, a \in AmountInputs, p \in PriceInputs, sp \in PriceInputs,
          id \in QueueIds : add_new_order(t, a, p, sp, id)
    \/ pop_order
    \/ \E limit \in Limits, id_only \in BOOLEAN : queue_get_orders(limit, id_only)

QueueSpec == Init /\ [][QueueNext]_vars

\* Construction alone: Order.__init__ called directly and through
\* OrderQueue.add_new_order.  The fresh ids are interchangeable here, so they
\* are handed out in increasing order.
ConstructNext ==
    \/ \E t \in OrderType, a \in AmountInputs, p \in PriceInputs, sp \in PriceInputs :
          NewOrder(t, a, p, sp)
    \/ \E t \in OrderType, a \in AmountInputs, p \in PriceInputs, sp \in PriceInputs :
          /\ Cardinality(issued) < MaxQueueIds
          /\ add_new_order(t, a, p, sp, Cardinality(issued) + 1)

ConstructSpec == Init /\ [][ConstructNext]_vars

\* Fees: one Order, its status calls and pay_fee with amounts of either sign.
FeeNext ==
    \/ \E t \in OrderType, a \in AmountInputs, p \in PriceInputs, sp \in PriceInputs :
          NewOrder(t, a, p, sp)
    \/ open
    \/ accept
    \/ cancel
    \/ \E asset \in Assets, a \in FeePayments : pay_fee(asset, a)

FeeSpec == Init /\ [][FeeNext]_vars

BookNext ==
    \/ \E id \in Ids, ts \in Timestamps, sym \in Symbols : CreateOrder(id, ts, sym)
    \/ \E id \in Ids : insert_order(id)
    \/ \E id \in Ids : remove_order(id)

BookSpec == Init /\ [][BookNext]_vars

\* The book with insert_order and remove_order run one statement at a time;
\* every state, the ones between two statements included, is one a reader
\* may see.
BookStepNext ==
    \/ \E id \in Ids, ts \in Timestamps, sym \in Symbols : Idle /\ CreateOrder(id, ts, sym)
    \/ \E id \in Ids : insert_order_step(id)
    \/ \E id \in Ids : remove_order_step(id)

BookStepSpec == Init /\ [][BookStepNext]_vars

\* ------------------------------------------------------- claims on Order
AllTxPositive == \A i \in 1..Len(transactions) : transactions[i] > 0

ExecStep == lastOp' = "execute_transaction"

\* C2: an execute_transaction call that would make filled exceed amount fails
\* with the overfill error and leaves filled, transactions and status as they
\* were before the call.
C2_OverfillLeavesOrderUnchanged ==
    [][(ExecStep /\ filled + transactions'[Len(transactions')] > amount)
          => /\ outcome' = "AssertionError"
             /\ filled' = filled
             /\ transactions' = transactions
             /\ status' = status]_vars

\* C3: in every reachable state of an Order whose transactions all have
\* amounts > 0, 0 <= filled <= amount, and filled never decreases.
C3_FilledWithinAmount ==
    /\ [](constructed /\ AllTxPositive => 0 <= filled /\ filled <= amount)
    /\ [][AllTxPositive' => filled' >= filled]_vars

\* C7: a successful execute_transaction returns True iff filled = amount after
\* the update, and then sets status filled whatever the status was; otherwise
\* it returns False and keeps the status. With amounts > 0, the call returns
\* True (status becomes filled) exactly once: on the call where the running
\* sum of the amounts first equals amount.
ReachedAmount ==
    \E k \in 1..Len(transactions) : SumSeq(SubSeq(transactions, 1, k)) = amount

C7_FilledExactlyOnce ==
    /\ [][(ExecStep /\ outcome' = "ok")
            => /\ (ret' = "True") <=> (filled' = amount)
               /\ (ret' = "False") <=> (filled' # amount)
               /\ filled' = amount => status' = "filled" /\ filled_events' = filled_events + 1
               /\ filled' # amount => status' = status /\ filled_events' = filled_events]_vars
    /\ [][filled_events' # filled_events => ExecStep /\ outcome' = "ok"]_vars
    /\ [](constructed /\ AllTxPositive
            => /\ filled_events <= 1
               /\ (filled_events = 1) <=> ReachedAmount)

\* C7 witness: an order filled by its second transaction, after a partial first
\* one, on which a third call has then failed: still one fill event.
C7_Witness ==
    /\ constructed /\ AllTxPositive
    /\ filled_events = 1
    /\ Len(transactions) = 3
    /\ transactions[1] < amount
    /\ transactions[1] + transactions[2] = amount
    /\ lastOp = "execute_transaction" /\ outcome = "AssertionError"

\* C8: filled is the sum of the amounts in transactions, and transactions is
\* append-only: each execute_transaction call appends its transaction at the
\* end, and no call removes or reorders earlier entries.
C8_FilledIsSumAppendOnly ==
    /\ [](constructed => filled = SumSeq(transactions))
    /\ [][/\ ExecStep => /\ Len(transactions') = Len(transactions) + 1
                         /\ SubSeq(transactions', 1, Len(transactions)) = transactions
          /\ ~ExecStep => transactions' = transactions]_vars

C8_Witness ==
    /\ constructed
    /\ Len(transactions) = 3
    /\ transactions[1] # transactions[2]
    /\ filled = 3

\* C9: open() succeeds and sets status open from submitted, accepted and open
\* when the type is limit or stop_limit, and fails for a market order in every
\* status; accept() succeeds and sets accepted iff the type is stop_limit. A
\* failed open() or accept() leaves status, filled, transactions and fee
\* unchanged.
OrderUnchanged ==
    /\ status' = status
    /\ filled' = filled
    /\ transactions' = transactions
    /\ fee' = fee

C9_OpenAccept ==
    [][/\ (lastOp' = "open" /\ type # "market"
             /\ status \in {"submitted", "accepted", "open"})
          => outcome' = "ok" /\ status' = "open"
       /\ (lastOp' = "open" /\ type = "market")
          => outcome' = "AssertionError" /\ OrderUnchanged
       /\ (lastOp' = "accept" /\ type = "stop_limit")
          => outcome' = "ok" /\ status' = "accepted"
       /\ (lastOp' = "accept" /\ type # "stop_limit")
          => outcome' = "AssertionError" /\ OrderUnchanged
       /\ (lastOp' \in {"open", "accept"} /\ outcome' = "AssertionError")
          => OrderUnchanged]_vars

C9_Witness ==
    /\ constructed
    /\ type = "market"
    /\ lastOp = "open" /\ outcome = "AssertionError"
    /\ status = "cancelled"
    /\ filled > 0
    /\ DOMAIN fee # {}

\* C10: cancel() never fails: from every status and for every type it sets
\* status cancelled and leaves filled, transactions and fee unchanged; a
\* filled order becomes cancelled and keeps filled = amount.
C10_CancelAlways ==
    [][lastOp' = "cancel"
         => /\ outcome' = "ok"
            /\ status' = "cancelled"
            /\ filled' = filled
            /\ transactions' = transactions
            /\ fee' = fee]_vars

C10_Witness ==
    /\ constructed
    /\ lastOp = "cancel"
    /\ status = "cancelled"
    /\ filled_events = 1
    /\ filled = amount

\* -------------------------------------------------- claims on OrderQueue
\* C6: the queue is FIFO under any interleaving of add_new_order and
\* pop_order: each successful pop_order removes and returns the order added
\* earliest among those not yet popped, so the orders popped are, in order, the
\* first orders added, and the queue length is the number of successful adds
\* minus the number of successful pops.
C6_QueueFIFO ==
    /\ [](added = popped \o queue)
    /\ [](Len(queue) = Len(added) - Len(popped))
    /\ [][(lastOp' = "pop_order" /\ outcome' = "ok")
            => /\ qret' = added[Len(popped) + 1]
               /\ popped' = Append(popped, qret')
               /\ queue' = Tail(queue)]_vars
    /\ [][(lastOp' = "add_new_order" /\ outcome' = "ok")
            => /\ added' = Append(added, qret')
               /\ queue' = Append(queue, qret')]_vars

\* C6 witness: adds and pops interleaved, ids not in numeric order.
C6_Witness ==
    /\ Len(added) = 4
    /\ Len(popped) = 2
    /\ popped[1] > popped[2]
    /\ queue[1] > queue[2]
    /\ lastOp = "pop_order" /\ outcome = "ok"

\* --------------------------------------------------- claims on OrderBook
AllSymbolArgs == Symbols \cup {""}

IndexedIds == UNION {symbol_dict[sym].keys : sym \in DOMAIN symbol_dict}

NoDuplicates(d) == Len(d.list) = Cardinality(d.keys) /\ Range(d.list) = d.keys

\* C1: after any sequence of insert_order and remove_order calls (re-inserts
\* of a present order and failing removes of an absent one included), book,
\* time_dict and the union of the per-symbol indices hold the same ids, and
\* every id is in exactly one per-symbol index: the one of its order's symbol.
C1_ThreeWayConsistency ==
    /\ time_dict.keys = book
    /\ NoDuplicates(time_dict)
    /\ IndexedIds = book
    /\ \A sym \in DOMAIN symbol_dict :
          /\ NoDuplicates(symbol_dict[sym])
          /\ \A id \in symbol_dict[sym].keys : SymbolOf(id) = sym
    /\ \A id \in book :
          Cardinality({sym \in DOMAIN symbol_dict : id \in symbol_dict[sym].keys}) = 1

\* C1 witness: a remove of an absent order has just failed, two orders of one
\* symbol are in the book and the other symbol's index has been emptied.
C1_Witness ==
    /\ lastOp = "remove_order" /\ outcome = "KeyError"
    /\ Cardinality(book) = 2
    /\ DOMAIN symbol_dict = Symbols
    /\ \E sym \in Symbols : symbol_dict[sym].keys = {}

SortedByTimestamp(l) ==
    \A i, j \in 1..Len(l) : i < j => TimestampOf(l[i]) <= TimestampOf(l[j])

SortedByTimestampAndId(l) ==
    \A i, j \in 1..Len(l) :
        i < j => \/ TimestampOf(l[i]) < TimestampOf(l[j])
                 \/ TimestampOf(l[i]) = TimestampOf(l[j]) /\ l[i] < l[j]

\* C4 as stated: get_orders(limit=0), over the global index and over each
\* per-symbol index, returns the ids sorted ascending by (timestamp, id).
C4_SortedByTimestampAndId ==
    \A sym \in AllSymbolArgs : SortedByTimestampAndId(get_orders(sym, 0, TRUE).val)

\* The ids both lists hold keep their relative order from old to new.
KeepsRelativeOrder(old, new) ==
    LET InNew(x) == x \in Range(new)
        InOld(x) == x \in Range(old)
    IN  SelectSeq(old, InNew) = SelectSeq(new, InOld)

\* Every id new to the list stands after the ids of equal timestamp already there.
NewAfterEqualTimestamps(old, new) ==
    \A i, j \in 1..Len(new) :
        (new[j] \notin Range(old) /\ new[i] \in Range(old)
           /\ TimestampOf(new[i]) = TimestampOf(new[j])) => i < j

\* C4 as amended: get_orders(limit=0), over the global index and over each
\* per-symbol index, returns the ids sorted ascending by timestamp, and orders
\* with equal timestamps appear in the order in which they were inserted: an
\* inserted order goes after the orders of equal timestamp already there, and
\* no insert or remove changes the relative order of the others.
C4_SortedByTimestampThenInsertion ==
    /\ [](\A sym \in AllSymbolArgs : SortedByTimestamp(get_orders(sym, 0, TRUE).val))
    /\ [][\A sym \in AllSymbolArgs :
            LET old == get_orders(sym, 0, TRUE).val
                new == get_orders(sym, 0, TRUE).val'
            IN  /\ KeepsRelativeOrder(old, new)
                /\ NewAfterEqualTimestamps(old, new)]_vars

\* C4 witness: three orders in the global index, the last two of one timestamp
\* and standing in insertion order, the larger id first.
C4_Witness ==
    LET l == get_orders("", 0, TRUE).val
    IN  /\ Len(l) = 3
        /\ TimestampOf(l[1]) < TimestampOf(l[2])
        /\ TimestampOf(l[2]) = TimestampOf(l[3])
        /\ l[2] > l[3]
        /\ lastOp = "insert_order"

\* C5: for every symbol argument (empty = global index) and every k > 0,
\* get_orders(symbol, limit=k) is the last min(k, n) elements of
\* get_orders(symbol, limit=0), in the same order, n being the number of orders
\* in that index; it is empty when n = 0 and for a symbol never inserted, and
\* never an error. With id_only=False it is the snapshots of the same ids.
C5_LimitIsTail ==
    \A sym \in AllSymbolArgs : \A k \in 1..MaxLimit : \A id_only \in BOOLEAN :
        LET all == get_orders(sym, 0, id_only)
            got == get_orders(sym, k, id_only)
            n == Len(all.val)
        IN  /\ all.ok /\ got.ok
            /\ got.val = SubSeq(all.val, n - Min(k, n) + 1, n)
            /\ Len(got.val) = Min(k, n)
            /\ n = 0 => got.val = <<>>
            /\ (sym # "" /\ sym \notin DOMAIN symbol_dict) => got.val = <<>>

\* C5 witness: one symbol's index exists and has been emptied by removes; the
\* other symbol's index holds two orders, limit 1 returns the most recent one
\* only and limit 3 is clamped to the two there are.
C5_Witness ==
    /\ \E sym \in Symbols :
          /\ sym \in DOMAIN symbol_dict
          /\ symbol_dict[sym].keys = {}
          /\ get_orders(sym, 2, TRUE).val = <<>>
    /\ \E sym \in Symbols :
          /\ Len(get_orders(sym, 0, TRUE).val) = 2
          /\ get_orders(sym, 3, TRUE).val = get_orders(sym, 0, TRUE).val
          /\ get_orders(sym, 1, TRUE).val = Tail(get_orders(sym, 0, TRUE).val)
          /\ get_orders(sym, 1, FALSE).val = <<OrderInfo(get_orders(sym, 0, TRUE).val[2])>>
    /\ lastOp = "insert_order"


\* ------------------------------------------------ claims on construction
\* The arguments Order.__init__ accepts, as the claim states them.
ArgsAccepted(t, a, p, sp) ==
    /\ a > 0
    /\ t # "market" => p >= 0
    /\ t = "stop_limit" => sp >= 0

\* C11: every Order whose construction succeeds has amount > 0, price >= 0,
\* stop_price >= 0, stop_price = 0 unless its type is stop_limit and price = 0
\* when its type is market (the zeroing precedes the sign check, so a market
\* order given a negative price is valid), and starts submitted, with filled 0,
\* no transactions and no fee. Construction with amount <= 0, or with a price
\* or stop_price negative after the zeroing, fails; through add_new_order such
\* a failure leaves the queue unchanged.
C11_Construction ==
    /\ [](constructed
            => /\ amount > 0 /\ price >= 0 /\ stop_price >= 0
               /\ type # "stop_limit" => stop_price = 0
               /\ type = "market" => price = 0)
    /\ [][\A t \in OrderType, a \in AmountInputs, p \in PriceInputs, sp \in PriceInputs :
            (lastOp' = "Order" /\ NewOrder(t, a, p, sp))
              => /\ (outcome' = "ok") <=> ArgsAccepted(t, a, p, sp)
                 /\ ArgsAccepted(t, a, p, sp)
                      => /\ constructed' /\ type' = t /\ amount' = a
                         /\ price' = (IF t = "market" THEN 0 ELSE p)
                         /\ stop_price' = (IF t = "stop_limit" THEN sp ELSE 0)
                         /\ status' = "submitted" /\ filled' = 0
                         /\ transactions' = <<>> /\ DOMAIN fee' = {}
                 /\ ~ArgsAccepted(t, a, p, sp)
                      => outcome' = "AssertionError" /\ ~constructed']_vars
    /\ [][\A t \in OrderType, a \in AmountInputs, p \in PriceInputs, sp \in PriceInputs,
             id \in QueueIds :
            (lastOp' = "add_new_order" /\ add_new_order(t, a, p, sp, id))
              => /\ (outcome' = "ok") <=> ArgsAccepted(t, a, p, sp)
                 /\ ~ArgsAccepted(t, a, p, sp)
                      => /\ outcome' = "AssertionError"
                         /\ queue' = queue /\ issued' = issued /\ added' = added]_vars

\* C11 witness: a market order has been constructed (whatever price it was
\* given) and an add_new_order with invalid arguments has just failed on a
\* queue that holds two orders.
C11_Witness ==
    /\ constructed /\ type = "market" /\ price = 0 /\ stop_price = 0
    /\ status = "submitted" /\ transactions = <<>>
    /\ Len(queue) = 2
    /\ lastOp = "add_new_order" /\ outcome = "AssertionError"


\* ------------------------------------------------------- claims on pay_fee
\* C12: pay_fee(asset, 0) leaves the fee mapping as it was and creates no
\* entry; pay_fee(asset, a) with a # 0 adds a to the entry of asset, creating
\* it when absent, and leaves the other entries, status, filled and
\* transactions as they were.  So in every state fee[asset] is the sum of the
\* amounts paid for asset and the keys of fee are the assets that were paid
\* a nonzero amount.
C12_PayFee ==
    /\ [][\A asset \in Assets, a \in FeePayments :
            (lastOp' = "pay_fee" /\ pay_fee(asset, a))
              => /\ outcome' = "ok"
                 /\ status' = status /\ filled' = filled /\ transactions' = transactions
                 /\ a = 0 => fee' = fee
                 /\ a # 0
                      => /\ DOMAIN fee' = DOMAIN fee \cup {asset}
                         /\ fee'[asset] = (IF asset \in DOMAIN fee THEN fee[asset] ELSE 0) + a
                         /\ \A other \in DOMAIN fee \ {asset} : fee'[other] = fee[other]]_vars
    /\ [](/\ DOMAIN fee = paid.nonzero
          /\ \A asset \in DOMAIN fee : fee[asset] = paid.sum[asset])

\* An order that was paid 1 and then -1 in one asset (the entry stays, at 0)
\* and nothing in the other, pay_fee being the last call on a cancelled order.
C12_Witness ==
    /\ constructed /\ lastOp = "pay_fee"
    /\ DOMAIN fee = {"USD"} /\ fee["USD"] = 0
    /\ paid.nonzero = {"USD"}
    /\ status = "cancelled"

\* C13: pop_order on a queue with no orders fails with an error, returns
\* nothing and leaves the queue empty; an add_new_order made on the empty
\* queue followed by pop_order then returns the order just added.
C13_PopEmpty ==
    /\ [][(lastOp' = "pop_order" /\ queue = <<>>)
            => /\ outcome' = "KeyError"
               /\ qret' = NoId
               /\ queue' = <<>> /\ popped' = popped /\ added' = added /\ issued' = issued]_vars
    /\ [][(queue = <<>> /\ lastOp' = "add_new_order" /\ outcome' = "ok")
            => queue' = <<qret'>> /\ qret' # NoId]_vars
    /\ [][(lastOp = "add_new_order" /\ outcome = "ok" /\ queue = <<qret>>
              /\ lastOp' = "pop_order")
            => outcome' = "ok" /\ qret' = qret /\ queue' = <<>>]_vars

\* A pop_order that failed on a queue emptied by earlier pops.
C13_Witness ==
    /\ lastOp = "pop_order" /\ outcome = "KeyError"
    /\ queue = <<>>
    /\ Len(popped) = 2

HeadOf(q, limit) ==
    IF limit <= 0 THEN q ELSE SubSeq(q, 1, IF limit < Len(q) THEN limit ELSE Len(q))

\* C14: OrderQueue.get_orders(limit, id_only) leaves the queue as it was, and
\* what it returns is determined by the queue and its arguments: all entries
\* in insertion order for limit <= 0, the first min(limit, n) entries in
\* insertion order for limit > 0.
C14_QueueGetOrders ==
    [][\A limit \in Limits, id_only \in BOOLEAN :
         (lastOp' = "get_orders" /\ queue_get_orders(limit, id_only))
           => /\ outcome' = "ok"
              /\ queue' = queue /\ issued' = issued /\ added' = added /\ popped' = popped
              /\ qlist'.id_only = id_only
              /\ qlist'.list = HeadOf(queue, limit)]_vars

\* get_orders(2) returned the two oldest of three queued orders, whose ids
\* are not in numeric order.
C14_Witness ==
    /\ lastOp = "get_orders"
    /\ Len(queue) = 3
    /\ ~qlist.id_only
    /\ qlist.list = SubSeq(queue, 1, 2)
    /\ queue[1] > queue[3]

\* ------------------------------------- claims on the statements of a call
SymbolIndexOf(id) ==
    IF SymbolOf(id) \in DOMAIN symbol_dict THEN symbol_dict[SymbolOf(id)].keys ELSE {}

SymbolIndexAfter(id) ==
    IF SymbolOf(id) \in DOMAIN symbol_dict' THEN symbol_dict'[SymbolOf(id)].keys ELSE {}

\* A statement of remove_order(id) that returned.
RemoveStep(id) ==
    /\ lastOp' = "remove_order" /\ outcome' # "KeyError"
    /\ id \in {call.id, call'.id}

LeavesTime(id) == id \in time_dict.keys /\ id \notin time_dict'.keys

LeavesSymbol(id) == id \in SymbolIndexOf(id) /\ id \notin SymbolIndexAfter(id)

LeavesBook(id) == id \in book /\ id \notin book'

\* C15 as stated: remove_order deletes the order from its per-symbol index
\* first, then from the global time index, and last from the primary map.
C15_SymbolTimeBook ==
    [][\A id \in Ids :
         RemoveStep(id)
           => /\ LeavesSymbol(id) => id \in time_dict'.keys /\ id \in book'
              /\ LeavesTime(id) => id \notin SymbolIndexAfter(id) /\ id \in book'
              /\ LeavesBook(id) => id \notin time_dict'.keys /\ id \notin SymbolIndexAfter(id)]_vars

\* C15: remove_order deletes the order from the global time index first,
\* then from its per-symbol index, and last from the primary map; each
\* statement deletes from one structure, and a call that returns has
\* deleted from all three.
C15_TimeSymbolBook ==
    /\ [][\A id \in Ids :
            RemoveStep(id)
              => /\ LeavesTime(id) => id \in SymbolIndexAfter(id) /\ id \in book'
                 /\ LeavesSymbol(id) => id \notin time_dict'.keys /\ id \in book'
                 /\ LeavesBook(id) => id \notin time_dict'.keys /\ id \notin SymbolIndexAfter(id)
                 /\ LeavesTime(id) \/ LeavesSymbol(id) \/ LeavesBook(id)]_vars
    /\ [][\A id \in Ids :
            (RemoveStep(id) /\ outcome' = "ok")
              => /\ id \notin book'
                 /\ id \notin time_dict'.keys
                 /\ id \notin SymbolIndexAfter(id)]_vars

\* A remove_order that has deleted its order from the time index only, with
\* another order left in the book.
C15_Witness ==
    /\ lastOp = "remove_order" /\ outcome = "running" /\ call.done = 1
    /\ call.id \in book
    /\ call.id \in SymbolIndexOf(call.id)
    /\ call.id \notin time_dict.keys
    /\ Cardinality(book) = 2

\* C20: between any two statements of insert_order and remove_order every id
\* in the global index or in a per-symbol index is a key of book, so reading
\* the orders of any index through book (get_orders with id_only=False) and
\* the sort-key function of the indices never fail; the only call that
\* raises is a remove_order, and no index is left with a key its sorted list
\* lacks.
C20_IndexedIdsResolve ==
    /\ time_dict.keys \cup Range(time_dict.list) \subseteq book
    /\ \A sym \in DOMAIN symbol_dict :
          symbol_dict[sym].keys \cup Range(symbol_dict[sym].list) \subseteq book
    /\ \A symbol \in AllSymbolArgs, limit \in {0, 1, MaxLimit} :
          get_orders(symbol, limit, FALSE).ok
    /\ Range(time_dict.list) = time_dict.keys
    /\ outcome = "KeyError" => lastOp = "remove_order" /\ Idle

\* A remove_order between its second and third statement: its order is in
\* book and in no index, beside an order that is in all three.
C20_Witness ==
    /\ lastOp = "remove_order" /\ outcome = "running" /\ call.done = 2
    /\ call.id \in book
    /\ time_dict.keys # book
    /\ IndexedIds = time_dict.keys
    /\ Cardinality(time_dict.keys) = 1
    /\ get_orders("", 0, FALSE).ok

\* ------------------------------------------- claims on the status machine
\* C16 as stated: a stop_limit order in status accepted is never moved to
\* status open.
C16_AcceptedNeverOpens ==
    [][(constructed /\ type = "stop_limit" /\ status = "accepted")
         => status' # "open"]_vars

\* C16: open() on a stop_limit order in status accepted succeeds and moves it
\* to open; open() is the one operation that moves an accepted order to open,
\* and accept() itself leaves the order accepted.
C16_AcceptedOpens ==
    /\ [][(constructed /\ type = "stop_limit" /\ status = "accepted" /\ lastOp' = "open")
            => outcome' = "ok" /\ status' = "open"]_vars
    /\ [][(constructed /\ status = "accepted" /\ status' = "open")
            => lastOp' = "open" /\ type = "stop_limit"]_vars
    /\ [][(constructed /\ type = "stop_limit" /\ lastOp' = "accept")
            => status' = "accepted"]_vars

\* A stop_limit order that accept() has just moved to accepted.
C16_Witness ==
    /\ constructed /\ type = "stop_limit"
    /\ status = "accepted"
    /\ lastOp = "accept" /\ outcome = "ok"
    /\ filled = 0

\* C17: filled and cancelled are not absorbing.  From every status, these
\* two included, open() on a non-market order succeeds and sets open, and
\* accept() on a stop_limit order succeeds and sets accepted; a cancelled
\* order with filled < amount takes an execute_transaction and becomes
\* filled when the fill completes its amount.  Whether open(), accept() and
\* cancel() succeed depends on the type alone.
C17_NotAbsorbing ==
    /\ [][lastOp' = "open"
            => /\ (outcome' = "ok") <=> type # "market"
               /\ type # "market" => status' = "open"]_vars
    /\ [][lastOp' = "accept"
            => /\ (outcome' = "ok") <=> type = "stop_limit"
               /\ type = "stop_limit" => status' = "accepted"]_vars
    /\ [][lastOp' = "cancel" => outcome' = "ok"]_vars
    /\ [][(lastOp' = "execute_transaction" /\ status = "cancelled"
              /\ filled < amount /\ filled' = amount)
            => outcome' = "ok" /\ ret' = "True" /\ status' = "filled"]_vars

\* A stop_limit order that was filled and has then been accepted.
C17_Witness ==
    /\ constructed /\ type = "stop_limit"
    /\ filled_events = 1 /\ filled = amount
    /\ status = "accepted"
    /\ lastOp = "accept" /\ outcome = "ok"

\* C19: a market order is never open or accepted (it is submitted, filled or
\* cancelled), and an order in status accepted is a stop_limit order.
C19_StatusFitsType ==
    constructed
      => /\ type = "market" => status \in {"submitted", "filled", "cancelled"}
         /\ status = "accepted" => type = "stop_limit"
         /\ status = "open" => type \in {"limit", "stop_limit"}

\* A market order, filled, on which accept() has just failed.
C19_Witness ==
    /\ constructed /\ type = "market"
    /\ status = "filled"
    /\ lastOp = "accept" /\ outcome = "AssertionError"

\* ------------------------------------------ claims on the per-symbol indices
\* C18: the symbols that have a per-symbol index only grow.  insert_order
\* creates the index of its order's symbol when there is none and creates no
\* other; remove_order removes none, so the index of a symbol whose last
\* order was removed stays, empty; get_orders of that symbol is the empty
\* list for every limit; and the next insert_order of that symbol puts its
\* order in that index.
C18_IndicesOnlyGrow ==
    /\ [][DOMAIN symbol_dict \subseteq DOMAIN symbol_dict']_vars
    /\ [][\A id \in Ids :
            (lastOp' = "insert_order" /\ insert_order(id))
              => /\ DOMAIN symbol_dict' = DOMAIN symbol_dict \cup {SymbolOf(id)}
                 /\ id \in symbol_dict'[SymbolOf(id)].keys
                 /\ (SymbolOf(id) \in DOMAIN symbol_dict /\ symbol_dict[SymbolOf(id)].keys = {})
                      => symbol_dict'[SymbolOf(id)] = [keys |-> {id}, list |-> <<id>>]]_vars
    /\ [][lastOp' = "remove_order" => DOMAIN symbol_dict' = DOMAIN symbol_dict]_vars
    /\ [](\A sym \in DOMAIN symbol_dict :
            symbol_dict[sym].keys = {}
              => \A limit \in Limits, id_only \in BOOLEAN :
                    get_orders(sym, limit, id_only) = [ok |-> TRUE, val |-> <<>>])

\* A remove_order has just emptied the index of one symbol, which stays,
\* while the other symbol's index holds an order.
C18_Witness ==
    /\ lastOp = "remove_order" /\ outcome = "ok"
    /\ DOMAIN symbol_dict = Symbols
    /\ \E sym \in Symbols :
          /\ symbol_dict[sym].keys = {}
          /\ get_orders(sym, 1, TRUE).val = <<>>
          /\ \E other \in Symbols \ {sym} : symbol_dict[other].keys # {}
====
